---- MODULE Spec2Model ----
(***************************************************************************)
(* Shipping-bill extractor (src/app.py): a Streamlit script that reads the *)
(* text of uploaded PDFs, sends the batch to a generative model, recovers  *)
(* a JSON array from the reply and shows it as a table.                    *)
(*                                                                         *)
(* Text is modelled as a sequence of characters (strings), so that the     *)
(* regular expressions and the JSON decoder are computed character by      *)
(* character, as the library calls of the source compute them.             *)
(***************************************************************************)
EXTENDS Integers, Sequences, FiniteSets, TLC

VARIABLES
    keyPresent,      \* "GEMINI_API_KEY" in st.secrets
    configured,      \* genai.configure(api_key=...) has been called
    uploaded_files,  \* value of st.file_uploader: sequence of documents
    idx,             \* position of the for loop over uploaded_files
    tmpFiles,        \* temporary files that exist on disk (by document index)
    text,            \* local `text` of the loop body
    batch_texts,     \* list of {"Source", "Text"} entries
    inFlight,        \* generate_content requests sent and not yet answered
    genCalls,        \* number of generate_content invocations
    extractCalls,    \* number of extract_text_from_pdf invocations
    embedded,        \* what the model was asked to put in its reply (ghost)
    reply,           \* outcome of model.generate_content(prompt)
    span,            \* text handed to json.loads
    results,         \* return value of extract_shipping_details_with_ai
    diags,           \* st.error / st.info / st.success messages, in order
    table,           \* the DataFrame shown with st.dataframe
    log,             \* order of the stage calls of the handler (ghost)
    pc               \* position of the script

vars == <<keyPresent, configured, uploaded_files, idx, tmpFiles, text,
          batch_texts, inFlight, genCalls, extractCalls, embedded, reply,
          span, results, diags, table, log, pc>>

----------------------------------------------------------------------------
(* Bounds of the model *)

MaxDocs == 2        \* uploaded documents per run
MaxPre == 2         \* chunks of text before the embedded body of a reply
MaxSuf == 1         \* chunks of text after the embedded body of a reply

----------------------------------------------------------------------------
(* Characters and small text helpers *)

Min(a, b) == IF a < b THEN a ELSE b

MinOf(S) == CHOOSE x \in S : \A y \in S : x <= y

MaxOf(S) == 0 - MinOf({0 - x : x \in S})

\* characters str.strip() and the regex class \s treat as whitespace
PyWS == {" ", "\t", "\n", "\r", "\f"}

\* json.decoder.WHITESPACE: [ \t\n\r]*
JsonWS == {" ", "\t", "\n", "\r"}

Digits == <<"0", "1", "2", "3", "4", "5", "6", "7", "8", "9">>

IsDigit(c) == \E d \in 1..10 : Digits[d] = c

DigitVal(c) == (CHOOSE d \in 1..10 : Digits[d] = c) - 1

\* t[i:i+len(p)] == p
MatchAt(t, i, p) ==
    /\ i >= 1
    /\ i + Len(p) - 1 <= Len(t)
    /\ \A n \in 1..Len(p) : t[i + n - 1] = p[n]

\* str.startswith
StartsWith(t, p) == MatchAt(t, 1, p)

\* str.strip(): drop leading and trailing whitespace
Strip(t) ==
    LET keep == {i \in 1..Len(t) : t[i] \notin PyWS}
    IN  IF keep = {} THEN <<>> ELSE SubSeq(t, MinOf(keep), MaxOf(keep))

\* first index >= i whose character is not in ws (Len(t)+1 when none)
SkipOver(t, i, ws) ==
    CHOOSE k \in i..(Len(t) + 1) :
        /\ k = Len(t) + 1 \/ t[k] \notin ws
        /\ \A m \in i..(k - 1) : t[m] \in ws

\* the backquote character (a TLA+ string cannot hold one)
Backtick == "BACKTICK"

Fence == <<Backtick, Backtick, Backtick>>

FenceJson == Fence \o <<"j", "s", "o", "n">>

----------------------------------------------------------------------------
\* re.sub with re.MULTILINE: removes a fence with the json tag and the
\* whitespace after it at a line start, and a bare fence at a line end

\* ^ with re.MULTILINE: start of the text or just after a newline
AtLineStart(t, i) == i = 1 \/ t[i - 1] = "\n"

\* $ with re.MULTILINE: end of the text or just before a newline
AtLineEnd(t, i) == i = Len(t) + 1 \/ t[i] = "\n"

\* end (exclusive) of the match of the pattern at index i, 0 when it does
\* not match there: first alternative first
MatchEnd(t, i) ==
    IF AtLineStart(t, i) /\ MatchAt(t, i, FenceJson)
    THEN SkipOver(t, i + Len(FenceJson), PyWS)
    ELSE IF MatchAt(t, i, Fence) /\ AtLineEnd(t, i + Len(Fence))
    THEN i + Len(Fence)
    ELSE 0

\* the scan of re.sub from index i: copy up to the next match, drop the
\* match, go on after it
RECURSIVE ReSubFrom(_, _)
ReSubFrom(t, i) ==
    LET hits == {k \in i..Len(t) : MatchEnd(t, k) > 0}
    IN  IF hits = {} THEN SubSeq(t, i, Len(t))
        ELSE LET k == MinOf(hits)
             IN  SubSeq(t, i, k - 1) \o ReSubFrom(t, MatchEnd(t, k))

\* lines 63-64: the fences are removed only when the reply starts with one
StripFences(raw_text) ==
    IF StartsWith(raw_text, Fence) THEN ReSubFrom(raw_text, 1) ELSE raw_text

----------------------------------------------------------------------------
\* re.search with re.DOTALL for an opening bracket, anything, a closing bracket

NoMatch == [found |-> FALSE, first |-> 0, last |-> 0]

\* a search that starts at the last "[" that has a "]" after it
ReSearch_FromLastOpen(t) ==
    LET starts == {i \in 1..Len(t) :
                      t[i] = "[" /\ \E j \in (i + 1)..Len(t) : t[j] = "]"}
    IN  IF starts = {} THEN NoMatch
        ELSE LET i == MaxOf(starts)
                 j == MaxOf({k \in (i + 1)..Len(t) : t[k] = "]"})
             IN  [found |-> TRUE, first |-> i, last |-> j]

\* a search with a lazy quantifier: the match ends at the first "]"
ReSearch_Lazy(t) ==
    LET starts == {i \in 1..Len(t) :
                      t[i] = "[" /\ \E j \in (i + 1)..Len(t) : t[j] = "]"}
    IN  IF starts = {} THEN NoMatch
        ELSE LET i == MinOf(starts)
                 j == MinOf({k \in (i + 1)..Len(t) : t[k] = "]"})
             IN  [found |-> TRUE, first |-> i, last |-> j]

\* leftmost start at which the pattern can match, then the greedy .* gives
\* the longest match from that start
ReSearch(t) ==
    LET starts == {i \in 1..Len(t) :
                      t[i] = "[" /\ \E j \in (i + 1)..Len(t) : t[j] = "]"}
    IN  IF starts = {} THEN NoMatch
        ELSE LET i == MinOf(starts)
                 j == MaxOf({k \in (i + 1)..Len(t) : t[k] = "]"})
             IN  [found |-> TRUE, first |-> i, last |-> j]

----------------------------------------------------------------------------
(* json.loads.  A decoded value is tagged with its Python type:            *)
(*   list  [t |-> "arr", v |-> <<value, ...>>]                             *)
(*   dict  [t |-> "obj", v |-> <<<<key, value>>, ...>>] in insertion order *)
(*   str   [t |-> "str", v |-> <<character, ...>>]                         *)
(*   int   [t |-> "num", v |-> <<n>>]                                      *)
(*   None, True, False, nan, inf:  [t |-> "lit", v |-> <<name>>]           *)
(* The replies of the model hold no backslash, sign, fraction or exponent, *)
(* so strings have no escapes and numbers are plain non-negative integers. *)

JArr(items) == [t |-> "arr", v |-> items]

JObj(pairs) == [t |-> "obj", v |-> pairs]

JStr(chars) == [t |-> "str", v |-> chars]

JNum(n) == [t |-> "num", v |-> <<n>>]

JLit(name) == [t |-> "lit", v |-> <<name>>]

Quote == "\""

\* characters below 0x20, which a strict JSON string may not contain
ControlChars == {"\t", "\n", "\r", "\f"}

\* a decoding step that raised JSONDecodeError
Fail == [ok |-> FALSE, val |-> JLit("None"), end |-> 0]

Ok(val, end) == [ok |-> TRUE, val |-> val, end |-> end]

\* the constants the scanner matches by their spelling
Literals ==
    << <<<<"n", "u", "l", "l">>, "None">>,
       <<<<"t", "r", "u", "e">>, "True">>,
       <<<<"f", "a", "l", "s", "e">>, "False">>,
       <<<<"N", "a", "N">>, "nan">>,
       <<<<"I", "n", "f", "i", "n", "i", "t", "y">>, "inf">> >>

\* py_scanstring with strict=True; s[i] is the opening quote
ParseString(s, i) ==
    LET stop(k) == s[k] = Quote \/ s[k] \in ControlChars
    IN  IF \A k \in (i + 1)..Len(s) : ~stop(k) THEN Fail
        ELSE LET k == CHOOSE n \in (i + 1)..Len(s) :
                          stop(n) /\ \A m \in (i + 1)..(n - 1) : ~stop(m)
             IN  IF s[k] = Quote THEN Ok(JStr(SubSeq(s, i + 1, k - 1)), k + 1)
                 ELSE Fail

RECURSIVE DigitsValue(_, _, _)
DigitsValue(s, i, j) ==
    IF j < i THEN 0 ELSE 10 * DigitsValue(s, i, j - 1) + DigitVal(s[j])

\* NUMBER_RE integer part, 0|[1-9][0-9]*; s[i] is a digit
ParseNumber(s, i) ==
    IF s[i] = "0" THEN Ok(JNum(0), i + 1)
    ELSE LET e == CHOOSE k \in (i + 1)..(Len(s) + 1) :
                      /\ k = Len(s) + 1 \/ ~IsDigit(s[k])
                      /\ \A m \in (i + 1)..(k - 1) : IsDigit(s[m])
         IN  Ok(JNum(DigitsValue(s, i, e - 1)), e)

\* dict[key] = value: a repeated key keeps its place and takes the new value
DictSet(pairs, key, val) ==
    IF \E n \in 1..Len(pairs) : pairs[n][1] = key
    THEN [n \in 1..Len(pairs) |->
             IF pairs[n][1] = key THEN <<key, val>> ELSE pairs[n]]
    ELSE Append(pairs, <<key, val>>)

RECURSIVE ParseValue(_, _), ParseElems(_, _, _), ParseMembers(_, _, _)

\* JSONArray after the first value position: value, then "]" or ","
ParseElems(s, i, acc) ==
    LET r == ParseValue(s, i)
    IN  IF ~r.ok THEN Fail
        ELSE LET k == SkipOver(s, r.end, JsonWS)
             IN  IF k > Len(s) THEN Fail
                 ELSE IF s[k] = "]" THEN Ok(JArr(Append(acc, r.val)), k + 1)
                 ELSE IF s[k] = ","
                      THEN ParseElems(s, SkipOver(s, k + 1, JsonWS),
                                      Append(acc, r.val))
                 ELSE Fail

\* JSONObject at a key: "key" : value, then "}" or "," and the next key
ParseMembers(s, i, acc) ==
    LET key == ParseString(s, i)
    IN  IF ~key.ok THEN Fail
        ELSE LET c == SkipOver(s, key.end, JsonWS)
             IN  IF c > Len(s) \/ s[Min(c, Len(s))] # ":" THEN Fail
                 ELSE LET r == ParseValue(s, SkipOver(s, c + 1, JsonWS))
                      IN  IF ~r.ok THEN Fail
                          ELSE LET k == SkipOver(s, r.end, JsonWS)
                                   now == DictSet(acc, key.val.v, r.val)
                               IN  IF k > Len(s) THEN Fail
                                   ELSE IF s[k] = "}" THEN Ok(JObj(now), k + 1)
                                   ELSE IF s[k] = ","
                                        THEN LET q == SkipOver(s, k + 1, JsonWS)
                                             IN  IF q > Len(s) \/ s[Min(q, Len(s))] # Quote
                                                 THEN Fail
                                                 ELSE ParseMembers(s, q, now)
                                   ELSE Fail

\* scan_once: one JSON value starting exactly at index i
ParseValue(s, i) ==
    IF i > Len(s) THEN Fail
    ELSE IF s[i] = Quote THEN ParseString(s, i)
    ELSE IF s[i] = "{"
         THEN LET k == SkipOver(s, i + 1, JsonWS)
              IN  IF k > Len(s) THEN Fail
                  ELSE IF s[k] = "}" THEN Ok(JObj(<<>>), k + 1)
                  ELSE IF s[k] = Quote THEN ParseMembers(s, k, <<>>)
                  ELSE Fail
    ELSE IF s[i] = "["
         THEN LET k == SkipOver(s, i + 1, JsonWS)
              IN  IF k > Len(s) THEN Fail
                  ELSE IF s[k] = "]" THEN Ok(JArr(<<>>), k + 1)
                  ELSE ParseElems(s, k, <<>>)
    ELSE IF \E n \in 1..Len(Literals) : MatchAt(s, i, Literals[n][1])
         THEN LET n == CHOOSE m \in 1..Len(Literals) : MatchAt(s, i, Literals[m][1])
              IN  Ok(JLit(Literals[n][2]), i + Len(Literals[n][1]))
    ELSE IF IsDigit(s[i]) THEN ParseNumber(s, i)
    ELSE Fail

\* JSONDecoder.decode: whitespace, one value, whitespace, end of the text
JsonLoads(s) ==
    LET r == ParseValue(s, SkipOver(s, 1, JsonWS))
    IN  IF r.ok /\ SkipOver(s, r.end, JsonWS) = Len(s) + 1 THEN r ELSE Fail

\* bool(value), as tested by `if results:`
Truthy(val) ==
    CASE val.t = "num" -> val.v # <<0>>
      [] val.t = "lit" -> val.v \notin {<<"None">>, <<"False">>}
      [] OTHER -> val.v # <<>>

----------------------------------------------------------------------------
(* extract_shipping_details_with_ai, from the reply on (lines 58-76) *)

\* the exceptions generate_content raises, by the failure of the service
GenerationFailures == {"Unauthenticated", "NotFound", "ResourceExhausted", "Other"}

TextReply(chars) == [kind |-> "text", text |-> chars, exc |-> "none"]

RaisedReply(exc) == [kind |-> "raise", text |-> <<>>, exc |-> exc]

\* st.error(f"AI Extraction Error: {e}"): one message for every exception,
\* e being the exception that was caught
AIExtractionError(exc) ==
    [widget |-> "error", message |-> "AI Extraction Error", detail |-> exc]

\* the value returned, the span given to json.loads and the messages shown
ExtractShippingDetails(outcome) ==
    IF outcome.kind = "raise"
    THEN [results |-> JArr(<<>>), span |-> <<>>,
          diags |-> <<AIExtractionError(outcome.exc)>>]
    ELSE LET raw_text == StripFences(Strip(outcome.text))
             match == ReSearch(raw_text)
             arg == IF match.found
                    THEN SubSeq(raw_text, match.first, match.last)
                    ELSE raw_text
             r == JsonLoads(arg)
         IN  IF r.ok
             THEN [results |-> r.val, span |-> arg, diags |-> <<>>]
             ELSE [results |-> JArr(<<>>), span |-> arg,
                   diags |-> <<AIExtractionError("JSONDecodeError")>>]

----------------------------------------------------------------------------
(* The text a model writes for a value: compact JSON *)

RECURSIVE NumChars(_)
NumChars(n) ==
    IF n < 10 THEN <<Digits[n + 1]>>
    ELSE NumChars(n \div 10) \o <<Digits[(n % 10) + 1]>>

RECURSIVE JsonDumps(_), DumpItems(_, _), DumpPairs(_, _)

DumpItems(items, n) ==
    IF n > Len(items) THEN <<>>
    ELSE (IF n > 1 THEN <<",">> ELSE <<>>) \o JsonDumps(items[n])
         \o DumpItems(items, n + 1)

DumpPairs(pairs, n) ==
    IF n > Len(pairs) THEN <<>>
    ELSE (IF n > 1 THEN <<",">> ELSE <<>>)
         \o <<Quote>> \o pairs[n][1] \o <<Quote, ":">> \o JsonDumps(pairs[n][2])
         \o DumpPairs(pairs, n + 1)

JsonDumps(val) ==
    CASE val.t = "arr" -> <<"[">> \o DumpItems(val.v, 1) \o <<"]">>
      [] val.t = "obj" -> <<"{">> \o DumpPairs(val.v, 1) \o <<"}">>
      [] val.t = "str" -> <<Quote>> \o val.v \o <<Quote>>
      [] val.t = "num" -> NumChars(val.v[1])
      [] OTHER -> <<>>

----------------------------------------------------------------------------
(* Field names (lines 38-44, 113-124) *)

K_SBNo == <<"S", "B", " ", "N", "o">>

K_SBDate == <<"S", "B", " ", "D", "a", "t", "e">>

K_LUT == <<"L", "U", "T">>

K_IGST == <<"I", "G", "S", "T", " ", "A", "M", "T">>

K_PortCode == <<"P", "o", "r", "t", " ", "C", "o", "d", "e">>

K_Source == <<"S", "o", "u", "r", "c", "e">>

C_SBdate == <<"S", "B", " ", "d", "a", "t", "e">>

C_LUT == <<"L", "U", "T", " ", Quote, "Y", Quote, " ", "o", "r", " ", Quote, "N", Quote>>

C_IGST == <<Quote, "I", "G", "S", "T", " ", "A", "M", "T", Quote>>

C_PortCode == <<Quote, "P", "o", "r", "t", " ", "c", "o", "d", "e", Quote>>

rename_map ==
    << <<K_SBNo, K_SBNo>>, <<K_SBDate, C_SBdate>>, <<K_LUT, C_LUT>>,
       <<K_IGST, C_IGST>>, <<K_PortCode, C_PortCode>> >>

final_cols == <<K_SBNo, C_SBdate, C_LUT, C_IGST, C_PortCode, K_Source>>

----------------------------------------------------------------------------
(* Documents and their text.  The text of a PDF is kept as whose text it   *)
(* is and how many characters it has; its content plays no part in the     *)
(* script.                                                                 *)

\* text[:15000]
TruncLen == 15000

\* len("Error reading PDF: ")
ErrorPrefixLen == 19

FileNames == {<<"a">>, <<"b">>, <<"c">>}

DocLens == {40, 15001}

Documents == [name : FileNames, readable : BOOLEAN, len : DocLens]

Distinct(files) ==
    \A m, n \in 1..Len(files) : files[m].name = files[n].name => m = n

Batches ==
    {files \in UNION {[1..k -> Documents] : k \in 0..MaxDocs} : Distinct(files)}

NoText == [kind |-> "none", of |-> <<>>, len |-> 0]

\* an extraction that returns empty text when fitz raises
extract_text_from_pdf_Silent(doc) ==
    [kind |-> "text", of |-> doc.name, len |-> IF doc.readable THEN doc.len ELSE 0]

\* lines 23-31: the stripped text of the pages, or the error message when
\* fitz raises
extract_text_from_pdf(doc) ==
    IF doc.readable
    THEN [kind |-> "text", of |-> doc.name, len |-> doc.len]
    ELSE [kind |-> "error", of |-> doc.name, len |-> ErrorPrefixLen]

\* text[:15000]
Truncate(t) == [t EXCEPT !.len = Min(@, TruncLen)]

\* lines 100-103
BatchEntry(doc, t) == [Source |-> doc.name, Text |-> Truncate(t)]

----------------------------------------------------------------------------
(* The replies of the generative model.  The model is outside the program: *)
(* it may answer with any records in any order, wrapped or not, with text  *)
(* that holds no array, or the call may raise.                             *)

\* what a reply holds: text before, the body, text after; val is the value
\* the body denotes when the body is a JSON array
Embedded(pre, body, isArray, val, suf) ==
    [pre |-> pre, body |-> body, isArray |-> isArray, val |-> val, suf |-> suf]

EmbedArray(pre, val, suf) == Embedded(pre, JsonDumps(val), TRUE, val, suf)

EmbedOther(body) == Embedded(<<>>, body, FALSE, JLit("None"), <<>>)

NoEmbedded == EmbedOther(<<>>)

ReplyText(e) == e.pre \o e.body \o e.suf

BillDigit(name) ==
    CASE name = <<"a">> -> "1" [] name = <<"b">> -> "2" [] OTHER -> "3"

\* the object the model is asked to return for one entry of the batch
RecordFor(entry) ==
    JObj(<< <<K_SBNo, JStr(<<IF entry.Text.kind = "error" THEN "0"
                              ELSE BillDigit(entry.Source)>>)>>,
            <<K_SBDate, JStr(<<"x">>)>>,
            <<K_Source, JStr(entry.Source)>> >>)

Wrappers ==
    { <<<<>>, <<>>>>,
      <<FenceJson \o <<"\n">>, <<"\n">> \o Fence>> }

\* text without an array: prose, a bare number, a bracketed span that is
\* not JSON
OtherBodies == { <<"N", "o", " ", "d", "a", "t", "a", ".">>,
                 <<"1">>,
                 <<"[", "x", "]">> }

ModelReplies(batch) ==
    LET recs == {RecordFor(batch[n]) : n \in 1..Len(batch)}
        lists == UNION {[1..k -> recs] : k \in 0..Len(batch)}
    IN  {EmbedArray(w[1], JArr(l), w[2]) : l \in lists, w \in Wrappers}
        \cup {EmbedOther(b) : b \in OtherBodies}

----------------------------------------------------------------------------
(* pd.DataFrame(results), rename, column selection (lines 110-125) *)

Renamed(col) ==
    IF \E n \in 1..Len(rename_map) : rename_map[n][1] = col
    THEN rename_map[CHOOSE n \in 1..Len(rename_map) : rename_map[n][1] = col][2]
    ELSE col

\* the keys of a record after df.rename
RenamedKeys(rec) ==
    IF rec.t = "obj" THEN {Renamed(rec.v[n][1]) : n \in 1..Len(rec.v)} ELSE {}

\* the cell of a row under a renamed column; NaN when the record lacks it
Cell(rec, col) ==
    IF col \in RenamedKeys(rec)
    THEN rec.v[CHOOSE n \in 1..Len(rec.v) : Renamed(rec.v[n][1]) = col][2]
    ELSE JLit("nan")

NoTable == [columns |-> <<>>, rows |-> <<>>]

\* a table whose rows come out in the reverse order of results
DataFrame_Reversed(recs) ==
    LET present(c) == \E n \in 1..Len(recs) : c \in RenamedKeys(recs[n])
        cols == SelectSeq(final_cols, present)
    IN  [columns |-> cols,
         rows |-> [n \in 1..Len(recs) |->
                      [k \in 1..Len(cols) |->
                          Cell(recs[Len(recs) + 1 - n], cols[k])]]]

\* one row per element of results, in the order of results; the columns are
\* those of final_cols some record has
DataFrame(recs) ==
    LET present(c) == \E n \in 1..Len(recs) : c \in RenamedKeys(recs[n])
        cols == SelectSeq(final_cols, present)
    IN  [columns |-> cols,
         rows |-> [n \in 1..Len(recs) |->
                      [k \in 1..Len(cols) |-> Cell(recs[n], cols[k])]]]

----------------------------------------------------------------------------
(* The script, one run (lines 12-145) *)

Msg(widget, message) == [widget |-> widget, message |-> message, detail |-> "none"]

Init ==
    /\ keyPresent \in BOOLEAN
    /\ uploaded_files \in Batches
    /\ configured = FALSE
    /\ idx = 0
    /\ tmpFiles = {}
    /\ text = NoText
    /\ batch_texts = <<>>
    /\ inFlight = 0
    /\ genCalls = 0
    /\ extractCalls = 0
    /\ embedded = NoEmbedded
    /\ reply = TextReply(<<>>)
    /\ span = <<>>
    /\ results = JArr(<<>>)
    /\ diags = <<>>
    /\ table = NoTable
    /\ log = <<>>
    /\ pc = "start"

\* lines 12-15: configure the client, or report the missing key; the script
\* goes on either way
Configure ==
    /\ pc = "start"
    /\ IF keyPresent
       THEN configured' = TRUE /\ diags' = diags
       ELSE configured' = configured
            /\ diags' = Append(diags, Msg("error", "Missing Gemini API Key"))
    /\ pc' = "uploader"
    /\ UNCHANGED <<keyPresent, uploaded_files, idx, tmpFiles, text, batch_texts,
                   inFlight, genCalls, extractCalls, embedded, reply, span,
                   results, table, log>>

\* lines 80-86: nothing more happens in a run without uploaded files
ShowUploader ==
    /\ pc = "uploader"
    /\ pc' = IF Len(uploaded_files) > 0 THEN "button" ELSE "done"
    /\ UNCHANGED <<keyPresent, configured, uploaded_files, idx, tmpFiles, text,
                   batch_texts, inFlight, genCalls, extractCalls, embedded,
                   reply, span, results, diags, table, log>>

\* line 87, button not pressed in this run
NoClick ==
    /\ pc = "button"
    /\ pc' = "done"
    /\ UNCHANGED <<keyPresent, configured, uploaded_files, idx, tmpFiles, text,
                   batch_texts, inFlight, genCalls, extractCalls, embedded,
                   reply, span, results, diags, table, log>>

\* lines 87-91: button pressed
ClickExtract ==
    /\ pc = "button"
    /\ diags' = Append(diags, Msg("info", "Processing files"))
    /\ batch_texts' = <<>>
    /\ idx' = 1
    /\ pc' = "loop"
    /\ UNCHANGED <<keyPresent, configured, uploaded_files, tmpFiles, text,
                   inFlight, genCalls, extractCalls, embedded, reply, span,
                   results, table, log>>

\* lines 92-94: the upload is written to a named temporary file
WriteTemp ==
    /\ pc = "loop"
    /\ idx <= Len(uploaded_files)
    /\ tmpFiles' = tmpFiles \cup {idx}
    /\ pc' = "extract"
    /\ UNCHANGED <<keyPresent, configured, uploaded_files, idx, text,
                   batch_texts, inFlight, genCalls, extractCalls, embedded,
                   reply, span, results, diags, table, log>>

\* line 96
ExtractText ==
    /\ pc = "extract"
    /\ text' = extract_text_from_pdf(uploaded_files[idx])
    /\ extractCalls' = extractCalls + 1
    /\ log' = Append(log, <<"extract", idx>>)
    /\ pc' = "remove"
    /\ UNCHANGED <<keyPresent, configured, uploaded_files, idx, tmpFiles,
                   batch_texts, inFlight, genCalls, embedded, reply, span,
                   results, diags, table>>

\* a removal that is skipped when the text could not be read
RemoveTemp_OnSuccess ==
    /\ pc = "remove"
    /\ tmpFiles' = IF text.kind = "error" THEN tmpFiles ELSE tmpFiles \ {idx}
    /\ pc' = "append"
    /\ UNCHANGED <<keyPresent, configured, uploaded_files, idx, text,
                   batch_texts, inFlight, genCalls, extractCalls, embedded,
                   reply, span, results, diags, table, log>>

\* line 97: os.remove(tmp_path)
RemoveTemp ==
    /\ pc = "remove"
    /\ tmpFiles' = tmpFiles \ {idx}
    /\ pc' = "append"
    /\ UNCHANGED <<keyPresent, configured, uploaded_files, idx, text,
                   batch_texts, inFlight, genCalls, extractCalls, embedded,
                   reply, span, results, diags, table, log>>

\* lines 100-103, and the next turn of the for loop
AppendBatch ==
    /\ pc = "append"
    /\ batch_texts' = Append(batch_texts, BatchEntry(uploaded_files[idx], text))
    /\ idx' = idx + 1
    /\ pc' = "loop"
    /\ UNCHANGED <<keyPresent, configured, uploaded_files, tmpFiles, text,
                   inFlight, genCalls, extractCalls, embedded, reply, span,
                   results, diags, table, log>>

\* a request sent from inside the loop, after each document
SendRequest_PerDocument ==
    /\ pc = "loop"
    /\ idx > 1
    /\ inFlight' = inFlight + 1
    /\ genCalls' = genCalls + 1
    /\ log' = Append(log, <<"generate", Len(batch_texts)>>)
    /\ pc' = "awaiting"
    /\ UNCHANGED <<keyPresent, configured, uploaded_files, idx, tmpFiles, text,
                   batch_texts, extractCalls, embedded, reply, span, results,
                   diags, table>>

\* lines 105, 34-59: after the loop, one prompt with the whole batch is sent
SendRequest ==
    /\ pc = "loop"
    /\ idx > Len(uploaded_files)
    /\ inFlight' = inFlight + 1
    /\ genCalls' = genCalls + 1
    /\ log' = Append(log, <<"generate", Len(batch_texts)>>)
    /\ pc' = "awaiting"
    /\ UNCHANGED <<keyPresent, configured, uploaded_files, idx, tmpFiles, text,
                   batch_texts, extractCalls, embedded, reply, span, results,
                   diags, table>>

\* line 59: generate_content returns the reply or raises; without a
\* configured key the service rejects the request
ReceiveReply ==
    /\ pc = "awaiting"
    /\ \/ /\ configured
          /\ \E e \in ModelReplies(batch_texts) :
                /\ embedded' = e
                /\ reply' = TextReply(ReplyText(e))
       \/ /\ \E exc \in GenerationFailures :
                /\ ~configured => exc = "Unauthenticated"
                /\ reply' = RaisedReply(exc)
          /\ embedded' = embedded
    /\ inFlight' = inFlight - 1
    /\ log' = Append(log, <<"reply", Len(batch_texts)>>)
    /\ pc' = "normalize"
    /\ UNCHANGED <<keyPresent, configured, uploaded_files, idx, tmpFiles, text,
                   batch_texts, genCalls, extractCalls, span, results, diags,
                   table>>

\* lines 60-76: the rest of extract_shipping_details_with_ai
Normalize ==
    /\ pc = "normalize"
    /\ LET r == ExtractShippingDetails(reply)
       IN  /\ results' = r.results
           /\ span' = r.span
           /\ diags' = diags \o r.diags
    /\ log' = Append(log, <<"normalize", Len(batch_texts)>>)
    /\ pc' = "assemble"
    /\ UNCHANGED <<keyPresent, configured, uploaded_files, idx, tmpFiles, text,
                   batch_texts, inFlight, genCalls, extractCalls, embedded,
                   reply, table>>

\* lines 107-128 and 144-145.  pd.DataFrame raises on a value that is not a
\* list (a number, a string); nothing catches it and the run ends there
Assemble ==
    /\ pc = "assemble"
    /\ IF Truthy(results)
       THEN IF results.t = "arr"
            THEN /\ table' = DataFrame(results.v)
                 /\ diags' = Append(diags, Msg("success", "Extracted data"))
                 /\ pc' = "excel"
            ELSE /\ table' = table
                 /\ diags' = diags
                 /\ pc' = "crashed"
       ELSE /\ table' = table
            /\ diags' = Append(diags, Msg("error", "No data could be extracted"))
            /\ pc' = "done"
    /\ UNCHANGED <<keyPresent, configured, uploaded_files, idx, tmpFiles, text,
                   batch_texts, inFlight, genCalls, extractCalls, embedded,
                   reply, span, results, log>>

\* lines 131-143: the spreadsheet is written and offered, or writing fails
WriteExcel ==
    /\ pc = "excel"
    /\ \E written \in BOOLEAN :
          diags' = Append(diags, IF written
                                 THEN Msg("download_button", "Download Excel Report")
                                 ELSE Msg("error", "Error creating Excel"))
    /\ pc' = "done"
    /\ UNCHANGED <<keyPresent, configured, uploaded_files, idx, tmpFiles, text,
                   batch_texts, inFlight, genCalls, extractCalls, embedded,
                   reply, span, results, table, log>>

Next ==
    \/ Configure
    \/ ShowUploader
    \/ NoClick
    \/ ClickExtract
    \/ WriteTemp
    \/ ExtractText
    \/ RemoveTemp
    \/ AppendBatch
    \/ SendRequest
    \/ ReceiveReply
    \/ Normalize
    \/ Assemble
    \/ WriteExcel

Spec == Init /\ [][Next]_vars

----------------------------------------------------------------------------
(* extract_shipping_details_with_ai as a function of the reply alone: the  *)
(* reply is any text made of a few chunks around a body.                   *)

Chunks == {Fence, FenceJson, <<"\n">>, <<"[">>, <<"]">>, <<"x">>}

RECURSIVE Flatten(_)
Flatten(parts) ==
    IF parts = <<>> THEN <<>> ELSE Head(parts) \o Flatten(Tail(parts))

ChunkTexts(max) == {Flatten(parts) : parts \in UNION {[1..k -> Chunks] : k \in 0..max}}

\* arrays a model may write, compact or spaced out
ArrayBodies ==
    {EmbedArray(<<>>, v, <<>>) :
        v \in {JArr(<<>>),
               JArr(<<JNum(1)>>),
               JArr(<<JNum(1), JNum(20)>>),
               JArr(<<JArr(<<JNum(1)>>)>>),
               JArr(<<JObj(<< <<K_LUT, JStr(<<"Y">>)>> >>)>>),
               JArr(<<JStr(<<"]", "[">>)>>)}}
    \cup {Embedded(<<>>, <<"[", " ", "1", " ", ",", "\n", "2", " ", "]">>, TRUE,
                   JArr(<<JNum(1), JNum(2)>>), <<>>)}

\* bodies that are not an array
PlainBodies ==
    {EmbedOther(b) :
        b \in {<<>>, <<"1">>, <<"0">>, <<"x">>,
               JsonDumps(JObj(<< <<K_LUT, JStr(<<"Y">>)>> >>)),
               <<"[", "1", ",", "]">>}}

NormInputs ==
    {[b EXCEPT !.pre = p, !.suf = q] :
        b \in ArrayBodies \cup PlainBodies,
        p \in ChunkTexts(MaxPre), q \in ChunkTexts(MaxSuf)}

NormInit ==
    /\ embedded \in NormInputs
    /\ reply = TextReply(ReplyText(embedded))
    /\ keyPresent = TRUE
    /\ configured = TRUE
    /\ uploaded_files = <<>>
    /\ idx = 0
    /\ tmpFiles = {}
    /\ text = NoText
    /\ batch_texts = <<>>
    /\ inFlight = 0
    /\ genCalls = 1
    /\ extractCalls = 0
    /\ span = <<>>
    /\ results = JArr(<<>>)
    /\ diags = <<>>
    /\ table = NoTable
    /\ log = <<>>
    /\ pc = "replied"

\* lines 60-76 applied to the reply
NormalizeReply ==
    /\ pc = "replied"
    /\ LET r == ExtractShippingDetails(reply)
       IN  /\ results' = r.results
           /\ span' = r.span
           /\ diags' = r.diags
    /\ pc' = "returned"
    /\ UNCHANGED <<keyPresent, configured, uploaded_files, idx, tmpFiles, text,
                   batch_texts, inFlight, genCalls, extractCalls, embedded,
                   reply, table, log>>

NormNext == NormalizeReply

NormSpec == NormInit /\ [][NormNext]_vars

----------------------------------------------------------------------------
(* Properties *)

HasChar(t, c) == \E n \in 1..Len(t) : t[n] = c

\* the text holds a "[" and, later, a "]"
SpanExists(t) == \E i, j \in 1..Len(t) : i < j /\ t[i] = "[" /\ t[j] = "]"

FirstIndex(t, c) == MinOf({n \in 1..Len(t) : t[n] = c})

LastIndex(t, c) == MaxOf({n \in 1..Len(t) : t[n] = c})

\* the reply after strip() and the removal of the fences
Cleaned == StripFences(Strip(reply.text))

\* the body is the one well-formed array of the reply: every part of the
\* reply that decodes as a list lies inside the body
OneArray(e) ==
    LET t == ReplyText(e)
    IN  \A i, j \in 1..Len(t) :
           (i < j /\ t[i] = "[" /\ t[j] = "]" /\ JsonLoads(SubSeq(t, i, j)).ok)
           => (i > Len(e.pre) /\ j <= Len(e.pre) + Len(e.body))

\* C1 as stated: one well-formed array inside any surrounding text is
\* returned as it is, records and order unchanged.
C1_ArrayRecoveredAnyProse ==
    (pc = "returned" /\ embedded.isArray /\ OneArray(embedded))
    => results = embedded.val

\* C1 amended: a well-formed array is returned as it is, records and order
\* unchanged, when the text before it holds no "[" and the text after it
\* holds no "]"; no error is reported.
C1_ArrayRecovered ==
    (/\ pc = "returned"
     /\ embedded.isArray
     /\ ~HasChar(embedded.pre, "[")
     /\ ~HasChar(embedded.suf, "]"))
    => (results = embedded.val /\ diags = <<>>)

\* a fenced, non-empty array after a word of prose has been recovered
C1_Witness ==
    /\ pc = "returned"
    /\ embedded.isArray
    /\ embedded.pre = <<"x">> \o FenceJson
    /\ embedded.suf = Fence
    /\ Len(embedded.val.v) = 2
    /\ results = embedded.val

\* C2: a reply without a bracketed span gives the empty list, never a value
\* that is not a list.
C2_NoSpanGivesEmptyList ==
    (pc = "returned" /\ ~SpanExists(reply.text)) => results = JArr(<<>>)

\* what the caller can observe of one call: the value and the messages
Outcome(r) == [results |-> r.results, diags |-> r.diags]

\* replies without a bracketed span
NoSpanTexts == {e.body : e \in {b \in PlainBodies : ~SpanExists(b.body)}}

\* C3: the outcome for a bracketed span that is not JSON differs from the
\* outcome for every reply without a bracketed span.
C3_InvalidSpanDistinguishable ==
    (pc = "returned" /\ SpanExists(reply.text) /\ ~JsonLoads(span).ok)
    => \A t \in NoSpanTexts :
          Outcome(ExtractShippingDetails(TextReply(t)))
              # [results |-> results, diags |-> diags]

\* C9: when the cleaned reply holds a "[" and a later "]", json.loads gets
\* the text from the first "[" to the last "]".
C9_OutermostSpan ==
    (pc = "returned" /\ SpanExists(Cleaned))
    => span = SubSeq(Cleaned, FirstIndex(Cleaned, "["), LastIndex(Cleaned, "]"))

\* two top-level arrays in one reply: the span covers both
C9_Witness ==
    /\ pc = "returned"
    /\ embedded.pre = <<"[", "]">>
    /\ embedded.isArray
    /\ embedded.val.v # <<>>
    /\ embedded.suf = <<>>
    /\ span = ReplyText(embedded)

----------------------------------------------------------------------------
(* Properties of the run *)

NumFiles == Len(uploaded_files)

AllReadable == \A n \in 1..NumFiles : uploaded_files[n].readable

\* the list the prompt asks for: one record per entry, in the order of the
\* batch
RequestedRecords == JArr([n \in 1..Len(batch_texts) |-> RecordFor(batch_texts[n])])

\* the value of a field of a record the model wrote
Field(rec, key) == rec.v[CHOOSE n \in 1..Len(rec.v) : rec.v[n][1] = key][2]

\* the normalized reply has reached the handler
Returned == pc \in {"assemble", "excel", "done", "crashed"} /\ genCalls > 0

\* C4 as stated: when extraction fails for one document, the result has
\* fewer records than documents and holds the records of the others.
C4_FailedDocumentOmitted ==
    (/\ Returned
     /\ reply.kind = "text"
     /\ embedded.val = RequestedRecords
     /\ \E k \in 1..NumFiles : ~uploaded_files[k].readable)
    => /\ Len(results.v) < NumFiles
       /\ \A n \in 1..NumFiles :
             uploaded_files[n].readable
             => \E m \in 1..Len(results.v) : results.v[m] = RecordFor(batch_texts[n])

\* C4 amended: a failed extraction does not stop the loop; the entry of
\* that document carries the error text, every other entry the document's
\* own text, and the batch sent to the model has one entry per document in
\* upload order.
C4_BatchKeepsEveryDocument ==
    /\ Len(batch_texts) <= NumFiles
    /\ genCalls > 0 => Len(batch_texts) = NumFiles
    /\ \A n \in 1..Len(batch_texts) :
          /\ batch_texts[n].Source = uploaded_files[n].name
          /\ batch_texts[n].Text.of = uploaded_files[n].name
          /\ batch_texts[n].Text.kind =
                IF uploaded_files[n].readable THEN "text" ELSE "error"
          /\ uploaded_files[n].readable
             => batch_texts[n].Text.len = Min(uploaded_files[n].len, TruncLen)

\* the first of two documents failed and the request went out with both
C4_Witness ==
    /\ pc = "awaiting"
    /\ NumFiles = 2
    /\ ~uploaded_files[1].readable
    /\ uploaded_files[2].readable
    /\ Len(batch_texts) = 2

\* the index of the Source column of the table, 0 when it has none
SourceColumn ==
    IF \E k \in 1..Len(table.columns) : table.columns[k] = K_Source
    THEN CHOOSE k \in 1..Len(table.columns) : table.columns[k] = K_Source
    ELSE 0

\* position of a file name among the uploads
UploadIndex(name) == CHOOSE n \in 1..NumFiles : uploaded_files[n].name = name.v

RowsInUploadOrder ==
    \A m, n \in 1..Len(table.rows) :
       m < n => UploadIndex(table.rows[m][SourceColumn])
                   <= UploadIndex(table.rows[n][SourceColumn])

TableShown == pc \in {"excel", "done"} /\ table # NoTable

\* C5 as stated: with extractable text for every document, the rows of the
\* table are in upload order.
C5_RowsInUploadOrder ==
    (TableShown /\ AllReadable) => RowsInUploadOrder

\* C5 amended: the batch sent to the model is in upload order and the rows
\* of the table are the records of the reply, in the order of the reply;
\* so the rows are in upload order when the reply lists its records in the
\* order of the batch.
C5_RowsInReplyOrder ==
    /\ \A n \in 1..Len(batch_texts) :
          batch_texts[n].Source = uploaded_files[n].name
    /\ TableShown =>
          /\ Len(table.rows) = Len(embedded.val.v)
          /\ \A n \in 1..Len(table.rows) :
                /\ table.rows[n][SourceColumn] = Field(embedded.val.v[n], K_Source)
                /\ table.rows[n][1] = Field(embedded.val.v[n], K_SBNo)
          /\ embedded.val = RequestedRecords => RowsInUploadOrder

\* a table of two rows for two documents
C5_Witness ==
    /\ TableShown
    /\ NumFiles = 2
    /\ AllReadable
    /\ embedded.val = RequestedRecords
    /\ Len(table.rows) = 2
    /\ table.columns = <<K_SBNo, C_SBdate, K_Source>>

\* C6: without the API key no text is extracted and the model is not called.
C6_MissingKeyBlocksProcessing ==
    ~keyPresent => (extractCalls = 0 /\ genCalls = 0)

\* C7: the message for a failed generation call is specific to the kind of
\* failure: no other kind of exception gets the same message.
C7_KindSpecificDiagnostic ==
    (pc = "assemble" /\ reply.kind = "raise")
    => \A other \in (GenerationFailures \cup {"JSONDecodeError"}) \ {reply.exc} :
          AIExtractionError(other).message # diags[Len(diags)].message

Normalized == \E n \in 1..Len(log) : log[n][1] = "normalize"

\* C8 as stated: extraction, generation and normalization are complete for
\* a document before the extraction of the next one begins, and at most
\* one request is in flight.
C8_OneDocumentAtATime ==
    /\ inFlight <= 1
    /\ (pc = "extract" /\ idx > 1) => Normalized

\* the stage calls of a run over n documents
ExpectedLog(n) ==
    [k \in 1..n |-> <<"extract", k>>]
    \o << <<"generate", n>>, <<"reply", n>>, <<"normalize", n>> >>

IsPrefix(a, b) == Len(a) <= Len(b) /\ a = SubSeq(b, 1, Len(a))

\* C8 amended: the documents are extracted one at a time in upload order;
\* after the last one a single request with the whole batch is sent, and
\* its reply is normalized once; at most one request is in flight.
C8_ExtractAllThenOneRequest ==
    /\ inFlight <= 1
    /\ genCalls <= 1
    /\ IsPrefix(log, ExpectedLog(NumFiles))

\* two documents extracted, one request answered and normalized
C8_Witness ==
    /\ pc = "assemble"
    /\ NumFiles = 2
    /\ log = ExpectedLog(2)

\* C10: the temporary file of a document is gone before the next document
\* is handled, whether or not its text could be read; at most one exists
\* at a time, and none during the request or at the end.
C10_TempFileRemoved ==
    /\ Cardinality(tmpFiles) <= 1
    /\ pc \in {"extract", "remove"} => tmpFiles = {idx}
    /\ pc \notin {"extract", "remove"} => tmpFiles = {}

\* the file of a second, unreadable document has been removed
C10_Witness ==
    /\ pc = "append"
    /\ idx = 2
    /\ text.kind = "error"
    /\ tmpFiles = {}

====
